---- MODULE Spec2Model ----
(***************************************************************************)
(* State machine of ExperimentManager (src/script.js): the word-by-word    *)
(* sentence reveal task, its timing capture and its result list, together  *)
(* with the browser callbacks the class schedules (animation frames,       *)
(* timeouts, the asynchronous stimulus load) and the participant's events. *)
(*                                                                         *)
(* Strings are sequences of one-character strings.  JavaScript indices are *)
(* 0-based and kept 0-based in the state; sequences are 1-based.           *)
(***************************************************************************)
EXTENDS Integers, Sequences, FiniteSets, TLC

VARIABLES
  sentences, currentSentenceIndex, currentWordIndex, results,
  experimentStartTime, screenDisplayTime, inputStartTime, timerInterval,
  isWaitingForInput, participantNumber, participantGender, participantAge,
  screen, inputDisplay, inputValue, inputFocused, currentSentenceText,
  promptText, progressText, alertOpen, downloaded,
  loadPending, displayChains, focusPending, advanceTimers, keypressPending,
  now,
  armCount, stampArm, displayWrites, visits, timingLog,
  splitCall

vars == << sentences, currentSentenceIndex, currentWordIndex, results,
  experimentStartTime, screenDisplayTime, inputStartTime, timerInterval,
  isWaitingForInput, participantNumber, participantGender, participantAge,
  screen, inputDisplay, inputValue, inputFocused, currentSentenceText,
  promptText, progressText, alertOpen, downloaded,
  loadPending, displayChains, focusPending, advanceTimers, keypressPending,
  now,
  armCount, stampArm, displayWrites, visits, timingLog,
  splitCall >>

(***************************************************************************)
(* Bounds of the model.                                                    *)
(***************************************************************************)
\* the monotonic clock runs from 1 to MaxTime
MaxTime == 2
\* most display-commit callback chains in flight at once
MaxChains == 2
\* most records a run appends before confirmations stop being explored
MaxResults == 2

(***************************************************************************)
(* JavaScript values.                                                      *)
(***************************************************************************)
\* null of the timestamp fields; performance.now() is positive
Null == 0 - 1
\* result of parseInt on a string without leading digits
NaN == 0 - 2

WhiteSpace == {" ", "\t"}
Digits == <<"0", "1", "2", "3", "4", "5", "6", "7", "8", "9">>

Min(a, b) == IF a <= b THEN a ELSE b

\* String.prototype.trim
RECURSIVE TrimLeft(_)
TrimLeft(s) ==
  IF s # <<>> /\ Head(s) \in WhiteSpace THEN TrimLeft(Tail(s)) ELSE s

RECURSIVE TrimRight(_)
TrimRight(s) ==
  IF s # <<>> /\ s[Len(s)] \in WhiteSpace
  THEN TrimRight(SubSeq(s, 1, Len(s) - 1)) ELSE s

\* the argument and the intermediate string are evaluated once each
Trim(str) ==
  CHOOSE result \in
    { TrimRight(t) : t \in { TrimLeft(s) : s \in { str } } } : TRUE

\* String.prototype.split(/\s+/): the pieces between maximal whitespace
\* runs, empty pieces at the ends included ("" splits to one empty piece)
RECURSIVE SplitWS(_, _, _)
SplitWS(s, cur, inRun) ==
  IF s = <<>> THEN << cur >>
  ELSE IF Head(s) \in WhiteSpace
       THEN IF inRun THEN SplitWS(Tail(s), cur, TRUE)
            ELSE << cur >> \o SplitWS(Tail(s), <<>>, TRUE)
       ELSE SplitWS(Tail(s), Append(cur, Head(s)), FALSE)

\* Array.prototype.filter(word => word.length > 0)
NonEmptyWords(ws) == SelectSeq(ws, LAMBDA w : Len(w) > 0)

\* splitIntoWords without the filter of empty pieces
splitIntoWords_NoFilter(sentence) ==
  CHOOSE result \in
    { SplitWS(trimmed, <<>>, FALSE) : trimmed \in { Trim(sentence) } } : TRUE

\* splitIntoWords(sentence)
splitIntoWords(sentence) ==
  CHOOSE result \in
    { NonEmptyWords(SplitWS(trimmed, <<>>, FALSE)) :
        trimmed \in { Trim(sentence) } } : TRUE

\* Array.prototype.join(' ')
RECURSIVE Join(_)
Join(words) ==
  CHOOSE result \in {
    IF ws = <<>> THEN <<>>
    ELSE IF Len(ws) = 1 THEN ws[1]
    ELSE ws[1] \o << " " >> \o Join(Tail(ws))
    : ws \in { words } } : TRUE

\* parseInt on a string of the form field: leading digits, or NaN
RECURSIVE DigitValue(_, _)
DigitValue(c, i) ==
  IF i > 10 THEN Null ELSE IF Digits[i] = c THEN i - 1 ELSE DigitValue(c, i + 1)

RECURSIVE ParseDigits(_, _, _)
ParseDigits(s, acc, seen) ==
  IF s = <<>> \/ DigitValue(Head(s), 1) = Null
  THEN IF seen THEN acc ELSE NaN
  ELSE ParseDigits(Tail(s), 10 * acc + DigitValue(Head(s), 1), TRUE)

parseInt(s) == ParseDigits(TrimLeft(s), 0, FALSE)

\* a comparison with NaN is false
NumLess(a, b) == a # NaN /\ b # NaN /\ a < b

(***************************************************************************)
(* Stimuli.  A Hangul syllable of the sample sentences is written "k":     *)
(* only the position of the blanks matters to the program.                 *)
(***************************************************************************)
K(n) == [i \in 1..n |-> "k"]
Sp == << " " >>
Dot == << "." >>

\* the fallback list of loadStimuliData's catch block
SampleSentences ==
  << K(2) \o Sp \o K(4) \o Sp \o K(2) \o Dot,
     K(2) \o Sp \o K(3) \o Sp \o K(2) \o Sp \o K(2) \o Dot,
     K(3) \o Sp \o K(4) \o Sp \o K(2) \o Sp \o K(3) \o Dot,
     K(3) \o Sp \o K(3) \o Sp \o K(2) \o Sp \o K(2) \o Dot,
     K(3) \o Sp \o K(2) \o Sp \o K(3) \o Sp \o K(3) \o Dot >>

\* the 'sentence' column of data/stimuli.xlsx, one list per possible file;
\* an empty column stands for an empty sheet
SentenceColumns ==
  { << >>,
    << <<"a", " ", "b">> >>,
    << <<" ", "a", "\t", " ", "b", " ">> >>,
    << <<"a">>, <<"a", " ", "b">> >>,
    << <<"a", " ", "b">>, <<"a">>, <<" ", " ">>, <<"b", " ", "a">> >>,
    << <<>>, <<" ">> >> }

\* the filter without the trim
NonBlankSentences_NoTrim(col) == SelectSeq(col, LAMBDA x : x # <<>>)

\* .filter(sentence => sentence && sentence.toString().trim() !== '')
NonBlankSentences(col) == SelectSeq(col, LAMBDA x : x # <<>> /\ Trim(x) # <<>>)

(***************************************************************************)
(* The state as one record, so that a handler is a function of the state.  *)
(***************************************************************************)
Cur ==
  [ sentences |-> sentences,
    currentSentenceIndex |-> currentSentenceIndex,
    currentWordIndex |-> currentWordIndex,
    results |-> results,
    experimentStartTime |-> experimentStartTime,
    screenDisplayTime |-> screenDisplayTime,
    inputStartTime |-> inputStartTime,
    timerInterval |-> timerInterval,
    isWaitingForInput |-> isWaitingForInput,
    participantNumber |-> participantNumber,
    participantGender |-> participantGender,
    participantAge |-> participantAge,
    screen |-> screen,
    inputDisplay |-> inputDisplay,
    inputValue |-> inputValue,
    inputFocused |-> inputFocused,
    currentSentenceText |-> currentSentenceText,
    promptText |-> promptText,
    progressText |-> progressText,
    alertOpen |-> alertOpen,
    downloaded |-> downloaded,
    loadPending |-> loadPending,
    displayChains |-> displayChains,
    focusPending |-> focusPending,
    advanceTimers |-> advanceTimers,
    keypressPending |-> keypressPending,
    now |-> now,
    armCount |-> armCount,
    stampArm |-> stampArm,
    displayWrites |-> displayWrites,
    visits |-> visits,
    timingLog |-> timingLog ]

Commit(next) == \E n \in {next} :
  /\ sentences' = n.sentences
  /\ currentSentenceIndex' = n.currentSentenceIndex
  /\ currentWordIndex' = n.currentWordIndex
  /\ results' = n.results
  /\ experimentStartTime' = n.experimentStartTime
  /\ screenDisplayTime' = n.screenDisplayTime
  /\ inputStartTime' = n.inputStartTime
  /\ timerInterval' = n.timerInterval
  /\ isWaitingForInput' = n.isWaitingForInput
  /\ participantNumber' = n.participantNumber
  /\ participantGender' = n.participantGender
  /\ participantAge' = n.participantAge
  /\ screen' = n.screen
  /\ inputDisplay' = n.inputDisplay
  /\ inputValue' = n.inputValue
  /\ inputFocused' = n.inputFocused
  /\ currentSentenceText' = n.currentSentenceText
  /\ promptText' = n.promptText
  /\ progressText' = n.progressText
  /\ alertOpen' = n.alertOpen
  /\ downloaded' = n.downloaded
  /\ loadPending' = n.loadPending
  /\ displayChains' = n.displayChains
  /\ focusPending' = n.focusPending
  /\ advanceTimers' = n.advanceTimers
  /\ keypressPending' = n.keypressPending
  /\ now' = n.now
  /\ armCount' = n.armCount
  /\ stampArm' = n.stampArm
  /\ displayWrites' = n.displayWrites
  /\ visits' = n.visits
  /\ timingLog' = n.timingLog
  /\ UNCHANGED splitCall

\* the state the constructor leaves; the page shows the participant form,
\* and the stimulus load it started has not settled
Constructed ==
  /\ sentences = << >>
  /\ currentSentenceIndex = 0
  /\ currentWordIndex = 0
  /\ results = << >>
  /\ experimentStartTime = Null
  /\ screenDisplayTime = Null
  /\ inputStartTime = Null
  /\ timerInterval = FALSE
  /\ isWaitingForInput = FALSE
  /\ participantNumber = << >>
  /\ participantGender = << >>
  /\ participantAge = Null
  /\ screen = "intro"
  /\ inputDisplay = "block"
  /\ inputValue = << >>
  /\ inputFocused = FALSE
  /\ currentSentenceText = << >>
  /\ promptText = "initial"
  /\ progressText = << 0, 0 >>
  /\ alertOpen = "none"
  /\ downloaded = << >>
  /\ loadPending = TRUE
  /\ displayChains = << >>
  /\ focusPending = FALSE
  /\ advanceTimers = 0
  /\ keypressPending = FALSE
  /\ now = 1
  /\ armCount = 0
  /\ stampArm = 0
  /\ displayWrites = 0
  /\ visits = << >>
  /\ timingLog = << >>

\* a call of splitIntoWords on its own: the argument and, once it has
\* returned, the result
NoCall == [input |-> << >>, output |-> << >>, returned |-> TRUE]

Init ==
  /\ Constructed
  /\ splitCall = NoCall

(***************************************************************************)
(* Methods of ExperimentManager, each a function from state to state.      *)
(* Where a method passes a state it has built to another method, the      *)
(* state is bound by CHOOSE over a singleton, so it is evaluated once.     *)
(***************************************************************************)
\* a timestamp field passes an `if (x)` test: neither null nor 0
Truthy(t) == t # Null /\ t # 0

\* showScreen(screenId)
showScreen(s, screenId) == [s EXCEPT !.screen = screenId]

\* the prediction input and its button can be clicked or focused
Rendered(s) == s.screen = "experiment" /\ s.inputDisplay = "block"

\* completeExperiment()
completeExperiment(s) ==
  showScreen([s EXCEPT !.timerInterval = FALSE], "completion")

\* recordScreenDisplayTime(): starts the chain requestAnimationFrame ->
\* requestAnimationFrame -> setTimeout(50) for the current opportunity
recordScreenDisplayTime(s) ==
  [s EXCEPT !.displayChains = Append(@, [arm |-> s.armCount, stage |-> 1])]

\* prepareForPrediction(displayText)
prepareForPrediction(s, displayText) ==
  LET shown == [s EXCEPT !.currentSentenceText = displayText,
                         !.inputDisplay = "block",
                         !.promptText = "predict",
                         !.inputValue = << >>,
                         !.isWaitingForInput = TRUE,
                         !.inputStartTime = Null,
                         !.armCount = @ + 1,
                         !.displayWrites = 0,
                         !.visits = Append(@, << "await",
                              s.currentSentenceIndex, s.currentWordIndex >>)]
  IN [recordScreenDisplayTime(shown) EXCEPT !.focusPending = TRUE]

\* the reduce of displayCurrentSentence over the first n sentences
RECURSIVE SumSteps(_, _)
SumSteps(ss, n) ==
  IF n = 0 THEN 0
  ELSE SumSteps(ss, n - 1) + Len(splitIntoWords(ss[n])) - 1

totalSteps(s) == SumSteps(s.sentences, Len(s.sentences))

\* getCurrentStep()
getCurrentStep(s) ==
  LET currentWords == splitIntoWords(s.sentences[s.currentSentenceIndex + 1])
  IN SumSteps(s.sentences, s.currentSentenceIndex)
       + Min(s.currentWordIndex, Len(currentWords) - 1)

\* displayCurrentSentence()
RECURSIVE displayCurrentSentence(_)
displayCurrentSentence(state) ==
  CHOOSE result \in {
    IF s.currentSentenceIndex >= Len(s.sentences) THEN completeExperiment(s)
    ELSE
      LET words == splitIntoWords(s.sentences[s.currentSentenceIndex + 1]) IN
      IF s.currentWordIndex >= Len(words)
      THEN displayCurrentSentence(
             [s EXCEPT !.currentSentenceIndex = @ + 1, !.currentWordIndex = 0])
      ELSE
        LET displayText == Join(SubSeq(words, 1, s.currentWordIndex + 1))
            isLastWord == s.currentWordIndex = Len(words) - 1
            shown ==
              IF isLastWord
              THEN [s EXCEPT !.currentSentenceText = displayText,
                             !.inputDisplay = "none",
                             !.promptText = "complete",
                             !.advanceTimers = @ + 1,
                             !.visits = Append(@, << "terminal",
                                s.currentSentenceIndex, s.currentWordIndex >>)]
              ELSE prepareForPrediction(s, displayText)
        IN [shown EXCEPT
              !.progressText = << getCurrentStep(shown), totalSteps(shown) >>]
    : s \in { state } } : TRUE

\* startTimer()
startTimer(s) == [s EXCEPT !.timerInterval = TRUE]

\* startExperiment()
startExperiment(s) ==
  displayCurrentSentence(
    startTimer(showScreen([s EXCEPT !.experimentStartTime = s.now],
                          "experiment")))

\* validateAndStartExperiment(), on the three values of the form
validateAndStartExperiment(s, number, gender, ageText) ==
  IF number = << >> \/ gender = << >> \/ ageText = << >>
  THEN [s EXCEPT !.alertOpen = "participantInfo"]
  ELSE LET age == parseInt(ageText) IN
       IF NumLess(age, 1) \/ NumLess(120, age)
       THEN [s EXCEPT !.alertOpen = "ageRange"]
       ELSE startExperiment([s EXCEPT !.participantNumber = number,
                                      !.participantGender = gender,
                                      !.participantAge = age])

\* recordInputStart()
recordInputStart(s) ==
  IF ~Truthy(s.inputStartTime) /\ s.isWaitingForInput
  THEN [s EXCEPT !.inputStartTime = s.now, !.isWaitingForInput = FALSE]
  ELSE s

\* responseTimeOf without the clamp of a negative difference
responseTimeOf_NoClamp(inputStart, screenDisplay) ==
  IF Truthy(inputStart) /\ Truthy(screenDisplay)
  THEN inputStart - screenDisplay
  ELSE 0

\* the response time saveResult computes
responseTimeOf(inputStart, screenDisplay) ==
  IF Truthy(inputStart) /\ Truthy(screenDisplay)
  THEN IF inputStart - screenDisplay < 0 THEN 0
       ELSE inputStart - screenDisplay
  ELSE 0

\* x || 0 on a timestamp field
OrZero(t) == IF Truthy(t) THEN t ELSE 0

\* saveResult(prediction); the sentence at the current index exists
saveResult(s, prediction) ==
  LET words == splitIntoWords(s.sentences[s.currentSentenceIndex + 1])
      actualNextWord == IF s.currentWordIndex + 2 <= Len(words)
                        THEN words[s.currentWordIndex + 2] ELSE << >>
      result == [ participantNumber |-> s.participantNumber,
                  participantGender |-> s.participantGender,
                  participantAge |-> s.participantAge,
                  sentenceIndex |-> s.currentSentenceIndex,
                  wordIndex |-> s.currentWordIndex,
                  predictedWord |-> prediction,
                  actualNextWord |-> actualNextWord,
                  screenDisplayTime |-> OrZero(s.screenDisplayTime),
                  inputStartTime |-> OrZero(s.inputStartTime),
                  responseTime |->
                    responseTimeOf(s.inputStartTime, s.screenDisplayTime) ]
  IN [s EXCEPT !.results = Append(@, result),
               !.timingLog = Append(@, [arm |-> s.armCount,
                                        stampArm |-> s.stampArm,
                                        awaiting |-> Rendered(s)])]

\* confirmPrediction testing the input without trimming it
confirmPrediction_NoTrim(state) ==
  CHOOSE result \in {
    LET prediction == s.inputValue IN
    IF prediction = << >> THEN [s EXCEPT !.alertOpen = "emptyPrediction"]
    ELSE IF s.currentSentenceIndex >= Len(s.sentences) THEN s
    ELSE displayCurrentSentence(
           [saveResult(s, prediction) EXCEPT !.currentWordIndex = @ + 1])
    : s \in { state } } : TRUE

\* confirmPrediction without the increment of currentWordIndex
confirmPrediction_NoAdvance(state) ==
  CHOOSE result \in {
    LET prediction == Trim(s.inputValue) IN
    IF prediction = << >> THEN [s EXCEPT !.alertOpen = "emptyPrediction"]
    ELSE IF s.currentSentenceIndex >= Len(s.sentences) THEN s
    ELSE displayCurrentSentence(saveResult(s, prediction))
    : s \in { state } } : TRUE

\* confirmPrediction(); with no sentence at the current index saveResult
\* throws a TypeError on sentence.trim() before it changes anything
confirmPrediction(state) ==
  CHOOSE result \in {
    LET prediction == Trim(s.inputValue) IN
    IF prediction = << >> THEN [s EXCEPT !.alertOpen = "emptyPrediction"]
    ELSE IF s.currentSentenceIndex >= Len(s.sentences) THEN s
    ELSE displayCurrentSentence(
           [saveResult(s, prediction) EXCEPT !.currentWordIndex = @ + 1])
    : s \in { state } } : TRUE

\* the timer callback without the increment of currentSentenceIndex
autoAdvance_NoIncrement(s) ==
  displayCurrentSentence(
    [s EXCEPT !.advanceTimers = @ - 1,
              !.visits = Append(@, << "advance",
                                   s.currentSentenceIndex, s.currentWordIndex >>),
              !.currentWordIndex = 0])

\* the timer callback without the move to the next sentence
autoAdvance_Stay(s) == [s EXCEPT !.advanceTimers = @ - 1]

\* the callback of the 2000 ms timer of displayCurrentSentence
autoAdvance(s) ==
  displayCurrentSentence(
    [s EXCEPT !.advanceTimers = @ - 1,
              !.visits = Append(@, << "advance",
                                   s.currentSentenceIndex, s.currentWordIndex >>),
              !.currentSentenceIndex = @ + 1,
              !.currentWordIndex = 0])

\* the callback of the 50 ms timeout of recordScreenDisplayTime, for the
\* oldest chain
displayTimeout(s) ==
  [s EXCEPT !.screenDisplayTime = s.now,
            !.stampArm = Head(s.displayChains).arm,
            !.displayWrites = @ + 1,
            !.displayChains = Tail(@)]

\* one animation frame: every callback registered before it runs once
animationFrame(s) ==
  [s EXCEPT
     !.displayChains = [i \in 1..Len(@) |->
        IF @[i].stage < 3 THEN [@[i] EXCEPT !.stage = @ + 1] ELSE @[i]],
     !.focusPending = FALSE,
     !.inputFocused = @ \/ (s.focusPending /\ Rendered(s))]

\* loadStimuliData(), once the fetch has settled: col is the sentence column
\* read from the file, or the load failed
loadStimuliData(s, failed, col) ==
  IF failed \/ col = << >>
  THEN [s EXCEPT !.sentences = SampleSentences, !.loadPending = FALSE]
  ELSE [s EXCEPT !.sentences = NonBlankSentences(col), !.loadPending = FALSE]

\* downloadResults(): the rows handed to the worksheet
downloadResults(s) == [s EXCEPT !.downloaded = s.results]

(***************************************************************************)
(* Events: the participant, the browser's scheduler and the clock.         *)
(***************************************************************************)
\* values of the participant form
NumberInputs == { << >>, << "7" >> }
GenderInputs == { << >>, << "F" >> }
AgeInputs == { << >>, << "0" >>, << "3", "0" >>, << "1", "2", "1" >> }

\* what the participant can have in the prediction input: nothing, blanks
\* only, a word between blanks
InputTexts == { << >>, << " " >>, << " ", "a", "\t" >> }

\* a handler that arms a new opportunity runs only below the chain bound
ChainRoom == Len(displayChains) < MaxChains

\* a confirmation is explored only below the bound on the records
ResultRoom == Len(results) < MaxResults

\* alert() is modal: no handler or callback runs while one is open; the
\* keypress of a key follows its keydown with nothing in between
NoAlert == alertOpen = "none" /\ ~keypressPending

\* the participant closes the alert, and the handler that opened it returns
DismissAlert ==
  /\ alertOpen # "none"
  /\ Commit([Cur EXCEPT !.alertOpen = "none"])

\* click on #startExperiment, visible on the participant form
ClickStart ==
  /\ NoAlert
  /\ screen = "intro"
  /\ \E number \in NumberInputs, gender \in GenderInputs, ageText \in AgeInputs :
       Commit(validateAndStartExperiment(Cur, number, gender, ageText))

\* click on #confirmPrediction, which needs the button on screen
ClickConfirm ==
  /\ NoAlert
  /\ Rendered(Cur)
  /\ ChainRoom
  /\ ResultRoom
  /\ Commit(confirmPrediction(Cur))

\* the keydown listener, for an event with e.target.id === 'predictionInput'
keydownListener(s) == IF s.isWaitingForInput THEN recordInputStart(s) ELSE s

\* keydown of an editing key in the focused prediction input, followed by
\* the key's effect on the text of the input
KeyDownChar ==
  /\ NoAlert
  /\ inputFocused
  /\ \E v \in InputTexts :
       Commit([keydownListener(Cur) EXCEPT !.inputValue = v])

\* keydown of Enter in the focused prediction input; its keypress follows
KeyDownEnter ==
  /\ NoAlert
  /\ inputFocused
  /\ ChainRoom
  /\ ResultRoom
  /\ Commit([keydownListener(Cur) EXCEPT !.keypressPending = TRUE])

\* the keypress listener, for Enter in the prediction input
KeyPressEnter ==
  /\ keypressPending
  /\ Commit(confirmPrediction([Cur EXCEPT !.keypressPending = FALSE]))

\* text put into the visible input without a key (paste or drop by mouse)
PasteText ==
  /\ NoAlert
  /\ Rendered(Cur)
  /\ \E v \in InputTexts : Commit([Cur EXCEPT !.inputValue = v])

\* the browser runs the pending requestAnimationFrame callbacks
AnimationFrame ==
  /\ NoAlert
  /\ focusPending \/ \E i \in 1..Len(displayChains) : displayChains[i].stage < 3
  /\ Commit(animationFrame(Cur))

\* the 50 ms timeout of the oldest display chain fires
DisplayTimeout ==
  /\ NoAlert
  /\ displayChains # << >>
  /\ Head(displayChains).stage = 3
  /\ Commit(displayTimeout(Cur))

\* a 2000 ms auto-advance timer fires
AutoAdvanceTimer ==
  /\ NoAlert
  /\ advanceTimers > 0
  /\ ChainRoom
  /\ Commit(autoAdvance(Cur))

\* the fetch of data/stimuli.xlsx settles
LoadSettles ==
  /\ NoAlert
  /\ loadPending
  /\ \/ Commit(loadStimuliData(Cur, TRUE, << >>))
     \/ \E col \in SentenceColumns : Commit(loadStimuliData(Cur, FALSE, col))

\* click on #downloadResults, visible on the completion screen
ClickDownload ==
  /\ NoAlert
  /\ screen = "completion"
  /\ Commit(downloadResults(Cur))

\* time passes on the monotonic clock
Tick ==
  /\ now < MaxTime
  /\ Commit([Cur EXCEPT !.now = @ + 1])

Next ==
  \/ ClickStart
  \/ ClickConfirm
  \/ KeyDownChar
  \/ KeyDownEnter
  \/ KeyPressEnter
  \/ PasteText
  \/ AnimationFrame
  \/ DisplayTimeout
  \/ AutoAdvanceTimer
  \/ LoadSettles
  \/ ClickDownload
  \/ DismissAlert
  \/ Tick

Spec == Init /\ [][Next]_vars

(***************************************************************************)
(* Phases of the reveal engine, read off the page the code has set up.     *)
(***************************************************************************)
Idle == screen = "intro"
AwaitingPrediction == screen = "experiment" /\ inputDisplay = "block"
AutoAdvancing == screen = "experiment" /\ inputDisplay = "none"
Completed == screen = "completion"

\* confirmPrediction is called: by the button or by Enter
ConfirmCall == ClickConfirm \/ KeyPressEnter

WordsOf(i) == splitIntoWords(sentences[i + 1])

\* (a, b) before (c, d) in lexicographic order
LexLess(a, b, c, d) == a < c \/ (a = c /\ b < d)

IsPrefix(p, q) == Len(p) <= Len(q) /\ SubSeq(q, 1, Len(p)) = p

\* the visits of sentence i in the order they happened
VisitsOf(i) == SelectSeq(visits, LAMBDA v : v[2] = i)

\* prediction waits at words 0..n-2, the terminal word n-1, one auto-advance
ExpectedVisits(i, n) ==
  [w \in 1..(n - 1) |-> << "await", i, w - 1 >>]
    \o << << "terminal", i, n - 1 >>, << "advance", i, n - 1 >> >>

\* C1: in a run that showed its sentences and completed, every sentence of
\* n >= 2 words was visited as n-1 prediction waits at words 0..n-2 in
\* increasing order, then the terminal word n-1 once, then one auto-advance.
C1_RevealOrder ==
  (Completed /\ visits # << >>) =>
     \A i \in 0..(Len(sentences) - 1) :
        Len(WordsOf(i)) >= 2 => VisitsOf(i) = ExpectedVisits(i, Len(WordsOf(i)))

\* C2: a call of confirmPrediction outside AwaitingPrediction appends no
\* record and leaves sentenceIndex and wordIndex alone, and every record has
\* wordIndex <= len(words) - 2 of its sentence.
C2_ConfirmOnlyWhenAwaiting ==
  /\ [][(ConfirmCall /\ ~AwaitingPrediction) =>
          UNCHANGED << results, currentSentenceIndex, currentWordIndex >>]_vars
  /\ [](\A i \in 1..Len(results) :
          results[i].wordIndex <= Len(WordsOf(results[i].sentenceIndex)) - 2)

\* C3: a call of confirmPrediction with an empty or whitespace-only input
\* changes nothing of the run: position, page, results, timing sample, wait
\* flag and scheduled callbacks stay as they were.
C3_EmptyConfirmRejected ==
  [][(ConfirmCall /\ Trim(inputValue) = << >>) =>
       UNCHANGED << currentSentenceIndex, currentWordIndex, screen,
                    inputDisplay, results, screenDisplayTime, inputStartTime,
                    isWaitingForInput, displayChains, focusPending,
                    advanceTimers, inputValue, sentences >>]_vars

\* a whitespace-only confirmation was rejected while a prediction was awaited
C3_Witness ==
  /\ alertOpen = "emptyPrediction"
  /\ AwaitingPrediction
  /\ inputValue = << " " >>
  /\ isWaitingForInput

\* the prediction opportunities of the list, in order
RECURSIVE Opportunities(_)
Opportunities(n) ==
  IF n = 0 THEN << >>
  ELSE Opportunities(n - 1)
         \o [w \in 1..(Len(WordsOf(n - 1)) - 1) |-> << n - 1, w - 1 >>]

ResultKeys == [i \in 1..Len(results) |->
                 << results[i].sentenceIndex, results[i].wordIndex >>]

\* C4: at Completed the results are exactly one record per prediction
\* opportunity of the stimulus list, in opportunity order.
C4_OneRecordPerOpportunity ==
  Completed => ResultKeys = Opportunities(Len(sentences))

\* C5: the results list only grows at its end, and no two records share
\* (sentenceIndex, wordIndex).
C5_AppendOnlyUniqueKeys ==
  /\ [][IsPrefix(results, results')]_vars
  /\ [](\A i, j \in 1..Len(results) : ResultKeys[i] = ResultKeys[j] => i = j)

\* two records exist, one of them appended while the terminal word was shown
C5_Witness ==
  /\ Len(results) >= 2
  /\ \E i \in 1..Len(timingLog) : ~timingLog[i].awaiting

\* C6: the display time a record carries was stamped by the display
\* callback of the record's own opportunity, never by an earlier one.
C6_DisplayTimeOfOwnOpportunity ==
  \A i \in 1..Len(results) :
     results[i].screenDisplayTime # 0 => timingLog[i].stampArm = timingLog[i].arm

\* C7: between two armings screenDisplayTime is written at most once.
C7_DisplayTimeWrittenOnce == displayWrites <= 1

\* C8: inputStartTime is written only when it is unset and a prediction
\* opportunity is armed, never while the terminal word is shown or after
\* completion.
C8_InputStartOnlyWhenArmed ==
  [][(inputStartTime' # inputStartTime /\ inputStartTime' # Null) =>
       (inputStartTime = Null /\ AwaitingPrediction)]_vars

\* C9: right after prepareForPrediction both screenDisplayTime and
\* inputStartTime are unset.
C9_ArmResetsSample ==
  [][armCount' # armCount =>
       (screenDisplayTime' = Null /\ inputStartTime' = Null)]_vars

\* max(0, input - display) on the two timestamps a record stores (0: unset)
Reconciled(r) ==
  IF r.inputStartTime # 0 /\ r.screenDisplayTime # 0
  THEN IF r.inputStartTime >= r.screenDisplayTime
       THEN r.inputStartTime - r.screenDisplayTime ELSE 0
  ELSE 0

\* C10: every record has responseTime = max(0, inputStartTime -
\* screenDisplayTime) if both are set and 0 otherwise, never negative; and a
\* confirmation with text appends its record and moves the position on
\* whatever the timestamps are.
C10_ResponseTime ==
  /\ [](\A i \in 1..Len(results) :
          results[i].responseTime = Reconciled(results[i])
            /\ results[i].responseTime >= 0)
  /\ [][(ConfirmCall /\ Trim(inputValue) # << >>
           /\ currentSentenceIndex < Len(sentences)) =>
          /\ Len(results') = Len(results) + 1
          /\ results'[Len(results')].responseTime
               = Reconciled([inputStartTime |-> OrZero(inputStartTime),
                             screenDisplayTime |-> OrZero(screenDisplayTime)])
          /\ LexLess(currentSentenceIndex, currentWordIndex,
                     currentSentenceIndex', currentWordIndex')]_vars

\* one record with the input stamped before the display (clamped to 0) and
\* one record with a missing timestamp
C10_Witness ==
  /\ \E i \in 1..Len(results) :
        /\ results[i].inputStartTime # 0
        /\ results[i].inputStartTime < results[i].screenDisplayTime
        /\ results[i].responseTime = 0
  /\ \E i \in 1..Len(results) :
        /\ results[i].inputStartTime = 0 \/ results[i].screenDisplayTime = 0
        /\ results[i].responseTime = 0
  /\ currentWordIndex > 0

(***************************************************************************)
(* The run under a fair scheduler and a participant who keeps answering.   *)
(***************************************************************************)
\* the participant puts a word into the visible prediction input
EnterWord == PasteText /\ Trim(inputValue') # << >>

\* the participant confirms a word while a prediction is awaited
ConfirmWord == ClickConfirm /\ Trim(inputValue) # << >>

\* every scheduled callback fires once it is due, whenever the event loop is
\* free again; an open alert is closed and a keypress follows its keydown;
\* the load settles; the participant enters and confirms a word at each
\* prediction opportunity
Fairness ==
  /\ SF_vars(AnimationFrame)
  /\ SF_vars(DisplayTimeout)
  /\ SF_vars(AutoAdvanceTimer)
  /\ SF_vars(LoadSettles)
  /\ WF_vars(DismissAlert)
  /\ WF_vars(KeyPressEnter)
  /\ SF_vars(EnterWord)
  /\ SF_vars(ConfirmWord)

\* the events of Next without the clock: no handler reads a timestamp
\* except to test that it is set, and every clock reading is positive
FairNext ==
  \/ ClickStart
  \/ ClickConfirm
  \/ KeyDownChar
  \/ KeyDownEnter
  \/ KeyPressEnter
  \/ PasteText
  \/ AnimationFrame
  \/ DisplayTimeout
  \/ AutoAdvanceTimer
  \/ LoadSettles
  \/ ClickDownload
  \/ DismissAlert

FairSpec == Init /\ [][FairNext]_vars /\ Fairness

\* the run has been started
Started == experimentStartTime # Null

\* a prediction is awaited that the bound on the explored records leaves
\* unanswered
ResultsExhausted == Len(results) >= MaxResults /\ AwaitingPrediction

C12_CompletedTerminal ==
  [][Completed =>
       UNCHANGED << screen, currentSentenceIndex, currentWordIndex, results >>]_vars


(***************************************************************************)
(* The progress text.                                                      *)
(***************************************************************************)
\* the prediction opportunities of the stimulus list: word w of sentence i
\* with a next word to predict
OpportunitySet ==
  UNION { { << i, w >> : w \in 0..(Len(WordsOf(i)) - 2) } :
            i \in 0..(Len(sentences) - 1) }

\* the opportunities before the current position
CompletedOpportunities ==
  { o \in OpportunitySet :
      LexLess(o[1], o[2], currentSentenceIndex, currentWordIndex) }

\* completed opportunities plus the one in flight, over all opportunities
ProgressWithInFlight ==
  << Cardinality(CompletedOpportunities) + 1, Cardinality(OpportunitySet) >>

\* C13: whenever a prediction opportunity is armed, the progress text shows
\* the number of completed opportunities plus one over the total number of
\* opportunities (1 at the first opportunity).
C13_ProgressCountsInFlight ==
  [][armCount' # armCount => progressText' = ProgressWithInFlight']_vars


\* what sentence i adds to the progress counts: its words but the last,
\* nothing when it has no word
Contribution(i) ==
  IF Len(WordsOf(i)) >= 1 THEN Len(WordsOf(i)) - 1 ELSE 0

\* the contributions of the first n sentences
RECURSIVE SumContribution(_)
SumContribution(n) ==
  IF n = 0 THEN 0 ELSE SumContribution(n - 1) + Contribution(n - 1)

\* the progress text as the contributions give it at the current position
ProgressByContribution ==
  << SumContribution(currentSentenceIndex)
       + Min(currentWordIndex, Len(WordsOf(currentSentenceIndex)) - 1),
     SumContribution(Len(sentences)) >>

\* C14: whenever a word is shown, the progress total is the sum of
\* len(words_i) - 1 over the sentences with at least one word, and the
\* sentences before the current one add the same amounts to the completed
\* steps; a sentence of no or one word adds 0, never a negative amount.
C14_ProgressTotal ==
  [][(visits' # visits /\ ~Completed') =>
       progressText' = ProgressByContribution']_vars

\* a word of the sentence after a one-word sentence is shown
C14_Witness ==
  /\ AwaitingPrediction
  /\ currentSentenceIndex > 0
  /\ \E i \in 0..(currentSentenceIndex - 1) : Len(WordsOf(i)) = 1
  /\ progressText = << 0, 1 >>


(***************************************************************************)
(* Sentences of fewer than two words.                                      *)
(***************************************************************************)
\* C15: a sentence of no or one word never gets a prediction opportunity:
\* no prediction is awaited at it and no record carries its index.
C15_ShortSentenceNoOpportunity ==
  /\ \A k \in 1..Len(visits) :
       visits[k][1] = "await" => Len(WordsOf(visits[k][2])) >= 2
  /\ \A k \in 1..Len(results) :
       Len(WordsOf(results[k].sentenceIndex)) >= 2


(***************************************************************************)
(* The participant form with any text in the age field.                    *)
(***************************************************************************)
\* values of the age field: those of AgeInputs, the ends of the valid
\* range, and texts parseInt reads no number or only a prefix from
FormAgeInputs ==
  AgeInputs \cup { << "1" >>, << "1", "2", "0" >>, << "x" >>, << "7", "x" >> }

\* click on #startExperiment with any of these in the age field
ClickStartForm ==
  /\ NoAlert
  /\ screen = "intro"
  /\ \E number \in NumberInputs, gender \in GenderInputs,
        ageText \in FormAgeInputs :
       Commit(validateAndStartExperiment(Cur, number, gender, ageText))

\* the form, the load and the callbacks of the first word shown
FormNext ==
  \/ ClickStartForm
  \/ DismissAlert
  \/ LoadSettles
  \/ AnimationFrame
  \/ DisplayTimeout
  \/ AutoAdvanceTimer
  \/ Tick

FormSpec == Init /\ [][FormNext]_vars

\* C16: the run is started only with participant number and gender present
\* and an age that is a number within 1..120; otherwise nothing is stored.
C16_StartOnlyWhenValid ==
  /\ Started =>
       /\ participantNumber # << >>
       /\ participantGender # << >>
       /\ participantAge \in 1..120
  /\ ~Started =>
       /\ participantNumber = << >>
       /\ participantGender = << >>
       /\ participantAge = Null
       /\ visits = << >>


(***************************************************************************)
(* splitIntoWords on every short string.                                   *)
(***************************************************************************)
\* the longest argument tried
MaxStrLen == 6

\* letters and the two kinds of blank
Alphabet == { "a", "b", " ", "\t" }

Strings == UNION { [1..k -> Alphabet] : k \in 0..MaxStrLen }

SplitInit ==
  /\ Constructed
  /\ \E str \in Strings :
       splitCall = [input |-> str, output |-> << >>, returned |-> FALSE]

\* the call returns
CallSplitIntoWords ==
  /\ ~splitCall.returned
  /\ splitCall' = [splitCall EXCEPT !.output = splitIntoWords(splitCall.input),
                                    !.returned = TRUE]
  /\ UNCHANGED << sentences, currentSentenceIndex, currentWordIndex, results,
       experimentStartTime, screenDisplayTime, inputStartTime, timerInterval,
       isWaitingForInput, participantNumber, participantGender,
       participantAge, screen, inputDisplay, inputValue, inputFocused,
       currentSentenceText, promptText, progressText, alertOpen, downloaded,
       loadPending, displayChains, focusPending, advanceTimers,
       keypressPending, now, armCount, stampArm, displayWrites, visits,
       timingLog >>

SplitNext == CallSplitIntoWords

SplitSpec == SplitInit /\ [][SplitNext]_vars

\* s without its leading and trailing blanks and with every inner run of
\* blanks replaced by one space, character by character
NormalizeWhitespace(s) ==
  LET Kept(i) ==
        \/ s[i] \notin WhiteSpace
        \/ /\ i > 1
           /\ s[i - 1] \notin WhiteSpace
           /\ \E j \in (i + 1)..Len(s) : s[j] \notin WhiteSpace
      idx == SelectSeq([i \in 1..Len(s) |-> i], Kept)
  IN [k \in 1..Len(idx) |->
        IF s[idx[k]] \in WhiteSpace THEN " " ELSE s[idx[k]]]

\* C17: splitIntoWords returns the non-empty blank-delimited tokens of its
\* argument in order (joined by one space they give the normalized
\* argument), the same tokens as for the normalized argument, and no token
\* for an empty or blank argument.
C17_SplitNormalized ==
  splitCall.returned =>
    /\ \A k \in 1..Len(splitCall.output) :
         /\ splitCall.output[k] # << >>
         /\ \A i \in 1..Len(splitCall.output[k]) :
              splitCall.output[k][i] \notin WhiteSpace
    /\ Join(splitCall.output) = NormalizeWhitespace(splitCall.input)
    /\ splitCall.output = splitIntoWords(NormalizeWhitespace(splitCall.input))
    /\ (\A i \in 1..Len(splitCall.input) : splitCall.input[i] \in WhiteSpace)
         => splitCall.output = << >>

\* the call returned two tokens for an argument with blanks at both ends
\* and a run of two blanks inside
C17_Witness ==
  /\ splitCall.returned
  /\ Len(splitCall.output) = 2
  /\ Len(splitCall.input) = 6
  /\ \A i \in {1, 3, 4, 6} : splitCall.input[i] \in WhiteSpace


(***************************************************************************)
(* The stimulus load and the run.                                          *)
(***************************************************************************)
\* C18: a run is started only after the stimulus load has settled, and
\* from its start to Completed no step replaces the sentence list.
C18_SentencesFixedForRun ==
  [][/\ (~Started /\ Started') => ~loadPending
     /\ (Started /\ ~Completed) => sentences' = sentences]_vars


(***************************************************************************)
(* The auto-advance timer.                                                 *)
(***************************************************************************)
\* C19: at most one auto-advance timer is pending, and when one fires the
\* page still shows the terminal word that scheduled it, at the position
\* it was shown at.
C19_OneTimerAtTerminalWord ==
  [][/\ advanceTimers' <= 1
     /\ AutoAdvanceTimer =>
          /\ AutoAdvancing
          /\ visits # << >>
          /\ visits[Len(visits)] =
               << "terminal", currentSentenceIndex, currentWordIndex >>]_vars


(***************************************************************************)
(* The position moves forward.                                             *)
(***************************************************************************)
\* C20: every step that changes the position (sentenceIndex, wordIndex)
\* increases it in lexicographic order, sentenceIndex never decreases, and
\* a step that changes the results appends one record whose position is
\* after that of the last record.
C20_PositionMovesForward ==
  [][/\ (<< currentSentenceIndex, currentWordIndex >>'
           # << currentSentenceIndex, currentWordIndex >>)
          => LexLess(currentSentenceIndex, currentWordIndex,
                     currentSentenceIndex', currentWordIndex')
     /\ currentSentenceIndex' >= currentSentenceIndex
     /\ results' # results =>
          /\ Len(results') = Len(results) + 1
          /\ SubSeq(results', 1, Len(results)) = results
          /\ Len(results) > 0 =>
               LexLess(results[Len(results)].sentenceIndex,
                       results[Len(results)].wordIndex,
                       results'[Len(results')].sentenceIndex,
                       results'[Len(results')].wordIndex)]_vars

\* two records, one of them confirmed while a terminal word was shown so
\* that its sentence was skipped as exhausted, and a timer has advanced
\* the run to a third sentence
C20_Witness ==
  /\ Len(results) = 2
  /\ \E k \in 1..Len(timingLog) : ~timingLog[k].awaiting
  /\ \E k \in 1..Len(visits) : visits[k][1] = "advance"
  /\ currentSentenceIndex >= 2

====
